---- MODULE Spec2Model ----
(***************************************************************************)
(* Model of biomni/tool/imaging.py: the three ASHLAR wrappers              *)
(*   stitch_and_register_tiles_ashlar, align_cyclic_images_ashlar,         *)
(*   stitch_microscopy_tiles_ashlar.                                       *)
(*                                                                         *)
(* A Python str is a sequence of chunks (TLA+ strings); "/" and "\n" are   *)
(* always chunks of their own, a decimal digit is always a chunk of its    *)
(* own.  Concatenation of Python strings is \o of the chunk sequences.     *)
(* The character U+2713 (check mark) is written "U+2713", U+2717 (ballot   *)
(* x) is written "U+2717".                                                 *)
(***************************************************************************)
EXTENDS Integers, Sequences, FiniteSets, TLC

VARIABLES
    files,      \* the regular files of the file system: normalised path -> size in bytes
    dirs,       \* the directories of the file system (normalised paths)
    clock,      \* what datetime.now() returns at the next call; counts the calls made
    op,         \* the entry point of the last call ("none" before the first)
    args,       \* the arguments the entry point of the last call was given
    delegated,  \* TRUE iff the last call reached the body of stitch_and_register_tiles_ashlar
    core,       \* the arguments stitch_and_register_tiles_ashlar received (when delegated)
    outcome,    \* "returned" or "raised" ("none" before the first call)
    report,     \* the text the last call returned (a str; <<>> when it raised)
    cmd,        \* the list `cmd` at the moment the last call ended (<<>> when never built)
    spawned,    \* the command lines handed to subprocess.run during the last call, in order
    proc,       \* what the external program did in the last call (NoProc when never run)
    pre         \* the file system (files and dirs) as it was when the last call began

vars == <<files, dirs, clock, op, args, delegated, core, outcome, report, cmd, spawned,
          proc, pre>>

----------------------------------------------------------------------------
(* Bounds of the model.                                                    *)

\* longest input_files / cycle_files list a call is given
MaxInputs == 2
\* longest ffp_files / dfp_files list a call is given
MaxProfiles == 2
\* in how many arguments one call differs from the plain call, which names one
\* existing input and leaves every optional parameter at its default
MaxOverrides == 2
\* the last clock value at which a call is made
MaxClock == 1

----------------------------------------------------------------------------
(* Python strings, and the conversions the code applies to them.           *)

\* a string literal
Lit(s) == <<s>>

EmptyStr == <<>>

Digit(d) == CASE d = 0 -> "0" [] d = 1 -> "1" [] d = 2 -> "2" [] d = 3 -> "3"
              [] d = 4 -> "4" [] d = 5 -> "5" [] d = 6 -> "6" [] d = 7 -> "7"
              [] d = 8 -> "8" [] d = 9 -> "9"

RECURSIVE NatStr(_)
NatStr(n) == IF n < 10 THEN <<Digit(n)>> ELSE NatStr(n \div 10) \o <<Digit(n % 10)>>

\* str(n) and f"{n}" of an int
IntStr(n) == IF n < 0 THEN <<"-">> \o NatStr(0 - n) ELSE NatStr(n)

\* "sep".join(parts)
RECURSIVE StrJoin(_, _)
StrJoin(sep, parts) ==
    IF parts = <<>> THEN EmptyStr
    ELSE IF Len(parts) = 1 THEN parts[1]
    ELSE parts[1] \o sep \o StrJoin(sep, Tail(parts))

\* repr(s) of a str without quotes or backslashes in it
StrRepr(s) == <<"'">> \o s \o <<"'">>

RECURSIVE MapRepr(_)
MapRepr(l) == IF l = <<>> THEN <<>> ELSE <<StrRepr(l[1])>> \o MapRepr(Tail(l))

\* f"{l}" of a list of str
ListRepr(l) == <<"[">> \o StrJoin(<<", ">>, MapRepr(l)) \o <<"]">>

\* os.path.join(a, b) on a POSIX system
PathJoin(a, b) ==
    IF b # <<>> /\ b[1] = "/" THEN b
    ELSE IF a = <<>> \/ a[Len(a)] = "/" THEN a \o b
    ELSE a \o <<"/">> \o b

\* the file-system object a path names: a trailing "/" and a leading "./" do not matter
NormPath(p) ==
    LET q == IF Len(p) > 1 /\ p[Len(p)] = "/" THEN SubSeq(p, 1, Len(p) - 1) ELSE p
    IN  IF Len(q) > 2 /\ q[1] = "." /\ q[2] = "/" THEN SubSeq(q, 3, Len(q)) ELSE q

\* os.path.exists(p)
PathExists(fs, ds, p) == NormPath(p) \in DOMAIN fs \/ NormPath(p) \in ds

\* os.path.getsize(p) of a regular file
GetSize(fs, p) == fs[NormPath(p)]

\* 1024**2
MiB == 1048576

\* round-half-to-even of num / den, num >= 0, den > 0
RoundHalfEven(num, den) ==
    LET q == num \div den
        r == num % den
    IN  IF 2 * r > den THEN q + 1
        ELSE IF 2 * r < den THEN q
        ELSE IF q % 2 = 0 THEN q ELSE q + 1

\* the text of h hundredths with two decimals
Hundredths(h) == NatStr(h \div 100) \o <<".">> \o <<Digit((h % 100) \div 10), Digit(h % 10)>>

\* the size cut to two decimals instead of rounded
FormatMBTruncated(bytes) == Hundredths((bytes * 100) \div MiB)

\* f"{bytes / (1024**2):.2f}": the quotient is exact in binary floating point and
\* the format rounds the exact value half to even
FormatMB(bytes) == Hundredths(RoundHalfEven(bytes * 100, MiB))

----------------------------------------------------------------------------
(* Python values of the parameters that accept more than one type.         *)

\* None, a str, or a list of str (input_files, ffp_files, dfp_files)
NoneVal == [kind |-> "none", s |-> <<>>, l |-> <<>>]
StrVal(s) == [kind |-> "str", s |-> s, l |-> <<>>]
ListVal(l) == [kind |-> "list", s |-> <<>>, l |-> l]

\* bool(v): None, "" and [] are falsy
Truthy(v) == CASE v.kind = "none" -> FALSE
               [] v.kind = "str" -> v.s # <<>>
               [] v.kind = "list" -> v.l # <<>>

\* isinstance(v, list)
IsList(v) == v.kind = "list"

\* the normalisation left out: list.extend(v) of a str adds its pieces one by one
NormalizeListMissing(v) == IF ~IsList(v) THEN [i \in 1..Len(v.s) |-> <<v.s[i]>>] ELSE v.l

\* `if not isinstance(v, list): v = [v]`, for a v that is a str or a list
NormalizeList(v) == IF ~IsList(v) THEN <<v.s>> ELSE v.l

\* None or a number (filter_sigma)
NoSigma == [kind |-> "none", n |-> 0]
Sigma(n) == [kind |-> "num", n |-> n]

\* bool(x) of None or a number: None and 0 are falsy
SigmaTruthy(x) == x.kind = "num" /\ x.n # 0

\* x is not None
SigmaGiven(x) == x.kind # "none"

----------------------------------------------------------------------------
(* The file system and the external program.                               *)

\* os.makedirs(d, exist_ok=True) raises FileNotFoundError for "" and
\* FileExistsError when d names a regular file
MakedirsError(fs, d) ==
    IF d = <<>> THEN "FileNotFoundError"
    ELSE IF NormPath(d) \in DOMAIN fs THEN "FileExistsError"
    ELSE "ok"

\* the directories after os.makedirs(d, exist_ok=True) succeeded
Makedirs(ds, d) == ds \cup {NormPath(d)}

\* the file system with a regular file of `size` bytes at path p
WriteFile(fs, p, size) ==
    [x \in DOMAIN fs \cup {NormPath(p)} |-> IF x = NormPath(p) THEN size ELSE fs[x]]

\* no external program ran
NoProc == [launch |-> FALSE, rc |-> 0, stdout |-> <<>>, stderr |-> <<>>,
           writes |-> FALSE, size |-> 0, error |-> <<>>]

\* the argument following "-o" on a command line: where ASHLAR writes its output
OutputArg(c) ==
    LET i == CHOOSE j \in 1..Len(c) : c[j] = Lit("-o") /\ \A k \in 1..(j - 1) : c[k] # Lit("-o")
    IN  c[i + 1]

\* the file system after the external program p ran on command line c
ProcessEffect(fs, c, p) ==
    IF p.launch /\ p.writes THEN WriteFile(fs, OutputArg(c), p.size) ELSE fs

\* datetime.now().strftime('%Y-%m-%d %H:%M:%S') at clock value t
StrfTime(t) == <<"T+">> \o NatStr(t)

----------------------------------------------------------------------------
(* stitch_and_register_tiles_ashlar                                        *)

\* the defaults of the signature
DefaultOutputPath == Lit("ashlar_output.ome.tif")
DefaultOutputDir == <<".", "/">>
DefaultAlignChannel == 0
DefaultMaximumShift == 15
DefaultTileSize == 1024

\* `[f for f in input_files if not os.path.exists(f)]`
RECURSIVE MissingFiles(_, _, _)
MissingFiles(fs, ds, input_files) ==
    IF input_files = <<>> THEN <<>>
    ELSE (IF ~PathExists(fs, ds, input_files[1]) THEN <<input_files[1]>> ELSE <<>>)
         \o MissingFiles(fs, ds, Tail(input_files))

\* the two validation returns
NoInputError == <<"Error:", " No input files provided">>
NotFoundError(missing_files) == <<"Error:", " Input files not found: ">> \o ListRepr(missing_files)

\* os.path.join(output_dir, output_path)
FullOutputPath(a) == PathJoin(a.output_dir, a.output_path)

\* the list `cmd` after the flat field block: "--ffp" and the files, if ffp_files is truthy
FfpTokens(ffp_files) ==
    IF Truthy(ffp_files) THEN <<Lit("--ffp")>> \o NormalizeList(ffp_files) ELSE <<>>

\* the same for the dark field block
DfpTokens(dfp_files) ==
    IF Truthy(dfp_files) THEN <<Lit("--dfp")>> \o NormalizeList(dfp_files) ELSE <<>>

\* "--filter-sigma" and the value, if filter_sigma is not None
SigmaTokens(filter_sigma) ==
    IF SigmaGiven(filter_sigma) THEN <<Lit("--filter-sigma"), IntStr(filter_sigma.n)>> ELSE <<>>

FlipXTokens(flip_x) == IF flip_x THEN <<Lit("--flip-x")>> ELSE <<>>
FlipYTokens(flip_y) == IF flip_y THEN <<Lit("--flip-y")>> ELSE <<>>

\* the command line with the output flag placed after the channel and shift flags
BuildCommandOutputLate(a, input_files) ==
    <<Lit("ashlar")>>
    \o input_files
    \o <<Lit("-c"), IntStr(a.align_channel)>>
    \o <<Lit("-m"), IntStr(a.maximum_shift)>>
    \o <<Lit("-o"), FullOutputPath(a)>>
    \o SigmaTokens(a.filter_sigma)
    \o <<Lit("--tile-size"), IntStr(a.tile_size)>>
    \o FfpTokens(a.ffp_files)
    \o DfpTokens(a.dfp_files)
    \o FlipXTokens(a.flip_x)
    \o FlipYTokens(a.flip_y)

\* the list `cmd` handed to subprocess.run; input_files is the normalised list
BuildCommand(a, input_files) ==
    <<Lit("ashlar")>>
    \o input_files
    \o <<Lit("-o"), FullOutputPath(a)>>
    \o <<Lit("-c"), IntStr(a.align_channel)>>
    \o <<Lit("-m"), IntStr(a.maximum_shift)>>
    \o SigmaTokens(a.filter_sigma)
    \o <<Lit("--tile-size"), IntStr(a.tile_size)>>
    \o FfpTokens(a.ffp_files)
    \o DfpTokens(a.dfp_files)
    \o FlipXTokens(a.flip_x)
    \o FlipYTokens(a.flip_y)

\* the first two entries of `log`
LogHeader(now) ==
    << Lit("# ASHLAR Image Stitching and Registration"),
       <<"Date: ">> \o StrfTime(now) \o <<"\n">> >>

\* the entry reporting filter_sigma, appended `if filter_sigma:`
SigmaLog(filter_sigma) ==
    IF SigmaTruthy(filter_sigma)
    THEN << <<"- Gaussian filter sigma: ">> \o IntStr(filter_sigma.n) \o <<" pixels">> >>
    ELSE <<>>

FfpLog(ffp_files) ==
    IF Truthy(ffp_files)
    THEN << <<"- Flat field profiles: ">> \o IntStr(Len(NormalizeList(ffp_files))) \o <<" file(s)">> >>
    ELSE <<>>

DfpLog(dfp_files) ==
    IF Truthy(dfp_files)
    THEN << <<"- Dark field profiles: ">> \o IntStr(Len(NormalizeList(dfp_files))) \o <<" file(s)">> >>
    ELSE <<>>

\* the entries of the "Input Parameters" section
ParameterLog(a, input_files) ==
    << Lit("## Input Parameters"),
       <<"- Number of input files: ">> \o IntStr(Len(input_files)),
       <<"- Output path: ">> \o a.output_path,
       <<"- Alignment channel: ">> \o IntStr(a.align_channel),
       <<"- Maximum shift: ">> \o IntStr(a.maximum_shift) \o <<" microns">> >>
    \o SigmaLog(a.filter_sigma)
    \o << <<"- Tile size: ">> \o IntStr(a.tile_size) \o <<" pixels">> >>
    \o FfpLog(a.ffp_files)
    \o DfpLog(a.dfp_files)
    \o (IF a.flip_x THEN <<Lit("- Flip X: enabled")>> ELSE <<>>)
    \o (IF a.flip_y THEN <<Lit("- Flip Y: enabled")>> ELSE <<>>)

\* the entries of the "Processing" section written before the program runs
ProcessingLog(c) ==
    << <<"\n", "## Processing">>,
       <<"Command: ">> \o StrJoin(<<" ">>, c) \o <<"\n">>,
       Lit("Running ASHLAR stitching and registration...") >>

\* `if result.stdout:` the output section
OutputLog(stdout) == IF stdout # <<>> THEN <<Lit("## ASHLAR Output"), stdout>> ELSE <<>>

\* `if os.path.exists(full_output_path):` the results section
ResultsLog(fs, ds, full_output_path) ==
    IF PathExists(fs, ds, full_output_path)
    THEN << <<"\n", "## Results">>,
            <<"- Output file: ">> \o full_output_path,
            <<"- File size: ">> \o FormatMB(GetSize(fs, full_output_path)) \o <<" MB">> >>
    ELSE <<>>

\* what the try block appends when the program exits with status 0
SuccessLog(fs, ds, full_output_path, stdout) ==
    << <<"U+2713", " ASHLAR completed successfully", "\n">> >>
    \o OutputLog(stdout)
    \o ResultsLog(fs, ds, full_output_path)

\* the handler reporting the exit code without the captured error text
CalledProcessErrorLogNoStderr(returncode, stderr) ==
    << <<"\n", "U+2717", " Error:", " ASHLAR failed with exit code ">> \o IntStr(returncode),
       <<"\n", "Error message:", "\n">> >>

\* `except subprocess.CalledProcessError as e:`
CalledProcessErrorLog(returncode, stderr) ==
    << <<"\n", "U+2717", " Error:", " ASHLAR failed with exit code ">> \o IntStr(returncode),
       <<"\n", "Error message:", "\n">> \o stderr >>

\* `except Exception as e:`
ExceptionLog(message) == << <<"\n", "U+2717", " Error:", " ">> \o message >>

\* the entries appended after the try statement
ConclusionLog(full_output_path) ==
    << <<"\n", "## Conclusion">>,
       Lit("Image stitching and registration completed successfully."),
       <<"Registered image saved to: ">> \o full_output_path >>

\* a second invocation of the same command line
InvocationsWithRetry(c) == <<c, c>>

\* the command lines subprocess.run is called with: the try block calls it once
Invocations(c) == <<c>>

\* what a call leaves behind
Result(oc, exc, text, lg, c, sp, fs, ds, p) ==
    [outcome |-> oc, exception |-> exc, report |-> text, log |-> lg, cmd |-> c,
     spawned |-> sp, files |-> fs, dirs |-> ds, proc |-> p]

\* the try statement and what follows it: input_files is the normalised list, lg the
\* log so far, p what the external program does when run
RunAshlar(a, input_files, lg, fs, ds, p) ==
    LET c == BuildCommand(a, input_files)
        lg1 == lg \o ParameterLog(a, input_files) \o ProcessingLog(c)
        sp == Invocations(c)
        fs1 == ProcessEffect(fs, c, p)
        full_output_path == FullOutputPath(a)
    IN  IF ~p.launch
        THEN LET lg2 == lg1 \o ExceptionLog(p.error)
             IN  Result("returned", "none", StrJoin(<<"\n">>, lg2), lg2, c, sp, fs1, ds, p)
        ELSE IF p.rc # 0
        THEN LET lg2 == lg1 \o CalledProcessErrorLog(p.rc, p.stderr)
             IN  Result("returned", "none", StrJoin(<<"\n">>, lg2), lg2, c, sp, fs1, ds, p)
        ELSE LET lg2 == lg1 \o SuccessLog(fs1, ds, full_output_path, p.stdout)
                           \o ConclusionLog(full_output_path)
             IN  Result("returned", "none", StrJoin(<<"\n">>, lg2), lg2, c, sp, fs1, ds, p)

\* the input validation: the text returned, or <<>> when the input is accepted
ValidationError(a, fs, ds) ==
    IF ~Truthy(a.input_files) THEN NoInputError
    ELSE LET missing_files == MissingFiles(fs, ds, NormalizeList(a.input_files))
         IN  IF missing_files # <<>> THEN NotFoundError(missing_files) ELSE <<>>

\* the whole function: a the arguments, fs and ds the file system before the call,
\* now the clock, p what the external program does if it is run
StitchAndRegister(a, fs, ds, now, p) ==
    IF MakedirsError(fs, a.output_dir) # "ok"
    THEN Result("raised", MakedirsError(fs, a.output_dir), <<>>, <<>>, <<>>, <<>>, fs, ds, NoProc)
    ELSE LET ds1 == Makedirs(ds, a.output_dir)
             lg == LogHeader(now)
             err == ValidationError(a, fs, ds1)
         IN  IF err # <<>>
             THEN Result("returned", "none", err, lg, <<>>, <<>>, fs, ds1, NoProc)
             ELSE RunAshlar(a, NormalizeList(a.input_files), lg, fs, ds1, p)

----------------------------------------------------------------------------
(* align_cyclic_images_ashlar                                              *)

AlignDefaultOutputPath == Lit("registered_cycles.ome.tif")
AlignDefaultMaximumShift == 30

\* the keyword arguments of the call it makes; the others take their defaults
AlignCoreArgs(w) ==
    [input_files |-> w.cycle_files, output_path |-> w.output_path,
     align_channel |-> w.align_channel, maximum_shift |-> w.maximum_shift,
     filter_sigma |-> NoSigma, tile_size |-> DefaultTileSize,
     ffp_files |-> NoneVal, dfp_files |-> NoneVal, flip_x |-> FALSE, flip_y |-> FALSE,
     output_dir |-> w.output_dir]

----------------------------------------------------------------------------
(* stitch_microscopy_tiles_ashlar                                          *)

TilesDefaultOutputPath == Lit("stitched.ome.tif")
TilesDefaultPattern == <<"*", ".", "tif">>
TilesDefaultMaximumShift == 15

\* the index of the last "/" of a path, 0 when it has none
LastSlash(p) ==
    IF \E i \in 1..Len(p) : p[i] = "/"
    THEN CHOOSE i \in 1..Len(p) : p[i] = "/" /\ \A j \in (i + 1)..Len(p) : p[j] # "/"
    ELSE 0

\* os.path.split: the directory part (without the "/") and the last component
DirName(p) == IF LastSlash(p) = 0 THEN <<>> ELSE SubSeq(p, 1, LastSlash(p) - 1)
BaseName(p) == SubSeq(p, LastSlash(p) + 1, Len(p))

\* fnmatch of one file name against a pattern that is a literal name or "*" and a suffix
FnMatch(name, pat) ==
    IF pat # <<>> /\ pat[1] = "*"
    THEN /\ Len(name) >= Len(pat) - 1
         /\ SubSeq(name, Len(name) - Len(pat) + 2, Len(name)) = Tail(pat)
    ELSE name = pat

\* the set of paths glob.glob(pattern) returns: the files of the pattern's directory
\* whose names match, each as the directory joined with the name
GlobSet(fs, pattern) ==
    LET dir == DirName(pattern)
        pat == BaseName(pattern)
    IN  { PathJoin(dir, BaseName(f)) :
            f \in { g \in DOMAIN fs : DirName(g) = NormPath(dir) /\ FnMatch(BaseName(g), pat) } }

\* the code point of the first character of a chunk
CodePoint(c) ==
    CASE c = "." -> 46 [] c = "/" -> 47 [] c = "B" -> 66 [] c = "a" -> 97 [] c = "b" -> 98
      [] c = "c" -> 99 [] c = "png" -> 112 [] c = "tif" -> 116 [] c = "tiles" -> 116

\* x < y for Python str, where chunks at the same position that begin with the same
\* character are the same chunk
RECURSIVE StrLess(_, _)
StrLess(x, y) ==
    IF y = <<>> THEN FALSE
    ELSE IF x = <<>> THEN TRUE
    ELSE IF x[1] = y[1] THEN StrLess(Tail(x), Tail(y))
    ELSE CodePoint(x[1]) < CodePoint(y[1])

\* the sorted list with one more element inserted
RECURSIVE Insert(_, _)
Insert(x, l) ==
    IF l = <<>> THEN <<x>>
    ELSE IF StrLess(x, l[1]) THEN <<x>> \o l
    ELSE <<l[1]>> \o Insert(x, Tail(l))

\* sorted(l)
RECURSIVE Sorted(_)
Sorted(l) == IF l = <<>> THEN <<>> ELSE Insert(l[1], Sorted(Tail(l)))

\* the orders in which glob.glob may return a set of paths (the order of the
\* directory listing, which the operating system chooses)
Listings(S) == { l \in [1..Cardinality(S) -> S] : \A i, j \in 1..Cardinality(S) : i # j => l[i] # l[j] }

\* the matches in the order the system listed them
TileFilesUnsorted(listing) == listing

\* `tile_files = sorted(glob.glob(pattern))` for a listing the system returned
TileFiles(listing) == Sorted(listing)

\* the text returned when nothing matches
NoMatchError(w) ==
    <<"Error:", " No files matching pattern ", "'">> \o w.file_pattern
    \o <<"'", " found in ">> \o w.tile_directory

TilesCoreArgs(w, tile_files) ==
    [input_files |-> ListVal(tile_files), output_path |-> w.output_path,
     align_channel |-> DefaultAlignChannel, maximum_shift |-> w.maximum_shift,
     filter_sigma |-> w.filter_sigma, tile_size |-> DefaultTileSize,
     ffp_files |-> NoneVal, dfp_files |-> NoneVal, flip_x |-> FALSE, flip_y |-> FALSE,
     output_dir |-> w.output_dir]

\* the whole function; listing is the order glob.glob returned the matches in
StitchMicroscopyTiles(w, listing, fs, ds, now, p) ==
    LET tile_files == TileFiles(listing)
    IN  IF tile_files = <<>>
        THEN [delegated |-> FALSE, core |-> TilesCoreArgs(w, <<>>),
              res |-> Result("returned", "none", NoMatchError(w), <<>>, <<>>, <<>>, fs, ds, NoProc)]
        ELSE [delegated |-> TRUE, core |-> TilesCoreArgs(w, tile_files),
              res |-> StitchAndRegister(TilesCoreArgs(w, tile_files), fs, ds, now, p)]

----------------------------------------------------------------------------
(* The inputs the calls are given.                                         *)

FileA == <<"a", ".", "tif">>
FileB == <<"b", ".", "tif">>
FileM == <<"m", ".", "tif">>
FileN == <<"n", ".", "tif">>

\* a.tif and b.tif exist, m.tif and n.tif do not
InputPaths == {FileA, FileB, FileM, FileN}

\* the directory "tiles" holds B.tif, a.tif, b.tif and c.png; "empty" holds nothing;
\* "nodir" does not exist
TileB == <<"tiles", "/", "B", ".", "tif">>
TileA == <<"tiles", "/", "a", ".", "tif">>
TileLb == <<"tiles", "/", "b", ".", "tif">>
TileC == <<"tiles", "/", "c", ".", "png">>

BaseFiles == [f \in {FileA, FileB, TileB, TileA, TileLb, TileC} |-> 2 * MiB]
BaseDirs == {<<".">>, <<"tiles">>, <<"empty">>}

\* sizes of an output file: 131072 bytes (0.125 MiB) and 393216 bytes (0.375 MiB) are
\* ties of the rounding to two decimals, 1578107 bytes are 1.505001 MiB
OutputSizes == {131072, 1578107}

\* the file system the call at clock value t starts from: the inputs alone for the
\* first call; later an output file left by an earlier run lies at the default
\* output path, and from the third call on another one at out/o.tif
StaleSize == 3 * 131072
FileSystemAt(t) ==
    IF t = 0 THEN [files |-> BaseFiles, dirs |-> BaseDirs]
    ELSE IF t = 1 THEN [files |-> WriteFile(BaseFiles, DefaultOutputPath, StaleSize),
                        dirs |-> BaseDirs]
    ELSE [files |-> WriteFile(WriteFile(BaseFiles, DefaultOutputPath, StaleSize),
                              <<"out", "/", "o.tif">>, StaleSize),
          dirs |-> BaseDirs \cup {<<"out">>}]

ListsUpTo(S, n) == UNION { [1..k -> S] : k \in 0..n }

\* input_files / cycle_files: a list, a single str, or None
InputValues ==
    { ListVal(l) : l \in ListsUpTo(InputPaths, MaxInputs) }
    \cup { StrVal(FileA), StrVal(FileM), StrVal(<<>>), NoneVal }

\* ffp_files: None, a str, or the list of the first k profile files, k >= 1
Ffp(i) == <<"ffp", Digit(i), ".tif">>
Dfp(i) == <<"dfp", Digit(i), ".tif">>
FfpValues ==
    { NoneVal, StrVal(<<>>), StrVal(Ffp(1)) }
    \cup { ListVal([i \in 1..k |-> Ffp(i)]) : k \in 1..MaxProfiles }
DfpValues ==
    { NoneVal, StrVal(<<>>), StrVal(Dfp(1)) }
    \cup { ListVal([i \in 1..k |-> Dfp(i)]) : k \in 1..MaxProfiles }

OutputPaths == { DefaultOutputPath, Lit("o.tif") }
\* "./", "out", "out/", "" (os.makedirs rejects it) and "a.tif" (a regular file)
OutputDirs == { DefaultOutputDir, <<"out">>, <<"out", "/">>, <<>>, FileA }
SigmaValues == { NoSigma, Sigma(0), Sigma(2) }

\* how many fields of o differ from the defaults d
Overrides(o, d) == Cardinality({ f \in DOMAIN d : o[f] # d[f] })

CoreDefaults ==
    [output_path |-> DefaultOutputPath, align_channel |-> DefaultAlignChannel,
     maximum_shift |-> DefaultMaximumShift, filter_sigma |-> NoSigma,
     tile_size |-> DefaultTileSize, ffp_files |-> NoneVal, dfp_files |-> NoneVal,
     flip_x |-> FALSE, flip_y |-> FALSE, output_dir |-> DefaultOutputDir]

\* the input of the plain call
PlainInput == ListVal(<<FileA>>)

\* the optional arguments of stitch_and_register_tiles_ashlar
CoreOptions ==
    { o \in [output_path : OutputPaths, align_channel : {DefaultAlignChannel, 1},
             maximum_shift : {DefaultMaximumShift, 7}, filter_sigma : SigmaValues,
             tile_size : {DefaultTileSize, 512}, ffp_files : FfpValues, dfp_files : DfpValues,
             flip_x : BOOLEAN, flip_y : BOOLEAN, output_dir : OutputDirs] :
        Overrides(o, CoreDefaults) <= MaxOverrides }
CoreOptionsFewer == { o \in CoreOptions : Overrides(o, CoreDefaults) <= MaxOverrides - 1 }
CoreOptionsFor(iv) == IF iv = PlainInput THEN CoreOptions ELSE CoreOptionsFewer

CoreArgs(iv, o) ==
    [input_files |-> iv, output_path |-> o.output_path, align_channel |-> o.align_channel,
     maximum_shift |-> o.maximum_shift, filter_sigma |-> o.filter_sigma,
     tile_size |-> o.tile_size, ffp_files |-> o.ffp_files, dfp_files |-> o.dfp_files,
     flip_x |-> o.flip_x, flip_y |-> o.flip_y, output_dir |-> o.output_dir]

AlignDefaults ==
    [output_path |-> AlignDefaultOutputPath, align_channel |-> DefaultAlignChannel,
     maximum_shift |-> AlignDefaultMaximumShift, output_dir |-> DefaultOutputDir]

\* the optional arguments of align_cyclic_images_ashlar
AlignOptions ==
    { o \in [output_path : {AlignDefaultOutputPath, Lit("o.tif")},
             align_channel : {DefaultAlignChannel, 1},
             maximum_shift : {AlignDefaultMaximumShift, 7}, output_dir : OutputDirs] :
        Overrides(o, AlignDefaults) <= MaxOverrides }
AlignOptionsFewer == { o \in AlignOptions : Overrides(o, AlignDefaults) <= MaxOverrides - 1 }
AlignOptionsFor(iv) == IF iv = PlainInput THEN AlignOptions ELSE AlignOptionsFewer

AlignArgs(iv, o) ==
    [cycle_files |-> iv, output_path |-> o.output_path, align_channel |-> o.align_channel,
     maximum_shift |-> o.maximum_shift, output_dir |-> o.output_dir]

TilesDefaults ==
    [output_path |-> TilesDefaultOutputPath, file_pattern |-> TilesDefaultPattern,
     maximum_shift |-> TilesDefaultMaximumShift, filter_sigma |-> NoSigma,
     output_dir |-> DefaultOutputDir]

\* the optional arguments of stitch_microscopy_tiles_ashlar
TilesOptions ==
    { o \in [output_path : {TilesDefaultOutputPath, Lit("o.tif")},
             file_pattern : {TilesDefaultPattern, <<"*", ".", "png">>, <<"*", ".", "czi">>,
                             <<"a", ".", "tif">>, <<"*">>},
             maximum_shift : {TilesDefaultMaximumShift, 7}, filter_sigma : SigmaValues,
             output_dir : OutputDirs] :
        Overrides(o, TilesDefaults) <= MaxOverrides }
TilesOptionsFewer == { o \in TilesOptions : Overrides(o, TilesDefaults) <= MaxOverrides - 1 }

\* "tiles" is the directory of the plain call
PlainDirectory == <<"tiles">>
TileDirectories == { PlainDirectory, <<"tiles", "/">>, <<"empty">>, <<"nodir">> }
TilesOptionsFor(d) == IF d = PlainDirectory THEN TilesOptions ELSE TilesOptionsFewer

TilesArgs(d, o) ==
    [tile_directory |-> d, output_path |-> o.output_path, file_pattern |-> o.file_pattern,
     maximum_shift |-> o.maximum_shift, filter_sigma |-> o.filter_sigma,
     output_dir |-> o.output_dir]

\* what the external program may do when it is run
LaunchError == <<"[Errno 2] No such file or directory: 'ashlar'">>
Exit(rc, out, err, writes, size) ==
    [launch |-> TRUE, rc |-> rc, stdout |-> out, stderr |-> err,
     writes |-> writes, size |-> size, error |-> <<>>]
ProcPool ==
    { [launch |-> FALSE, rc |-> 0, stdout |-> <<>>, stderr |-> <<>>,
       writes |-> FALSE, size |-> 0, error |-> LaunchError] }
    \cup { Exit(0, <<"stitched 4 tiles", "\n">>, <<>>, TRUE, sz) : sz \in OutputSizes }
    \cup { Exit(0, <<>>, <<"warning">>, FALSE, 0) }
    \cup { Exit(1, <<"partial">>, <<"ashlar: error: bad input", "\n">>, FALSE, 0),
           Exit(2, <<>>, <<>>, FALSE, 0),
           Exit(-9, <<>>, <<"Killed">>, TRUE, 131072) }

----------------------------------------------------------------------------
(* The state machine: a caller makes one call at a time; between calls     *)
(* time passes and the file system is set up again.                        *)

NoArgs == [none |-> TRUE]

Init ==
    /\ clock = 0
    /\ files = FileSystemAt(0).files
    /\ dirs = FileSystemAt(0).dirs
    /\ pre = FileSystemAt(0)
    /\ op = "none"
    /\ args = NoArgs
    /\ delegated = FALSE
    /\ core = NoArgs
    /\ outcome = "none"
    /\ report = <<>>
    /\ cmd = <<>>
    /\ spawned = <<>>
    /\ proc = NoProc

\* the external program's behaviour is an input of the calls that reach subprocess.run
Behaviours(a, fs, ds) ==
    IF MakedirsError(fs, a.output_dir) = "ok" /\ ValidationError(a, fs, Makedirs(ds, a.output_dir)) = <<>>
    THEN ProcPool ELSE {NoProc}

\* the state a call leaves
Finish(name, a, dg, c, r) ==
    /\ op' = name
    /\ args' = a
    /\ delegated' = dg
    /\ core' = c
    /\ outcome' = r.outcome
    /\ report' = r.report
    /\ cmd' = r.cmd
    /\ spawned' = r.spawned
    /\ proc' = IF r.spawned = <<>> THEN NoProc ELSE r.proc
    /\ files' = r.files
    /\ dirs' = r.dirs
    /\ pre' = [files |-> files, dirs |-> dirs]
    /\ UNCHANGED clock

CallStitchAndRegister ==
    /\ op = "none"
    /\ \E iv \in InputValues : \E o \in CoreOptionsFor(iv) :
         LET a == CoreArgs(iv, o)
         IN  \E p \in Behaviours(a, files, dirs) :
               Finish("stitch_and_register_tiles_ashlar", a, TRUE, a,
                      StitchAndRegister(a, files, dirs, clock, p))

CallAlignCyclicImages ==
    /\ op = "none"
    /\ \E iv \in InputValues : \E o \in AlignOptionsFor(iv) :
         LET w == AlignArgs(iv, o)
         IN  \E p \in Behaviours(AlignCoreArgs(w), files, dirs) :
               Finish("align_cyclic_images_ashlar", w, TRUE, AlignCoreArgs(w),
                      StitchAndRegister(AlignCoreArgs(w), files, dirs, clock, p))

CallStitchMicroscopyTiles ==
    /\ op = "none"
    /\ \E d \in TileDirectories : \E o \in TilesOptionsFor(d) :
         LET w == TilesArgs(d, o)
         IN  \E listing \in Listings(GlobSet(files, PathJoin(w.tile_directory, w.file_pattern))) :
               \E p \in Behaviours(TilesCoreArgs(w, listing), files, dirs) :
                 LET r == StitchMicroscopyTiles(w, listing, files, dirs, clock, p)
                 IN  Finish("stitch_microscopy_tiles_ashlar", w, r.delegated, r.core, r.res)

\* the caller is done with the report; time passes and the file system is set up
\* for the next call
NextCall ==
    /\ op # "none"
    /\ clock < MaxClock
    /\ clock' = clock + 1
    /\ files' = FileSystemAt(clock + 1).files
    /\ dirs' = FileSystemAt(clock + 1).dirs
    /\ pre' = FileSystemAt(clock + 1)
    /\ op' = "none"
    /\ args' = NoArgs
    /\ delegated' = FALSE
    /\ core' = NoArgs
    /\ outcome' = "none"
    /\ report' = <<>>
    /\ cmd' = <<>>
    /\ spawned' = <<>>
    /\ proc' = NoProc

Next ==
    \/ CallStitchAndRegister
    \/ CallAlignCyclicImages
    \/ CallStitchMicroscopyTiles
    \/ NextCall

Spec == Init /\ [][Next]_vars

----------------------------------------------------------------------------
(* The properties.  They speak of the state a call leaves: `core` are the   *)
(* arguments stitch_and_register_tiles_ashlar received, `pre` the file     *)
(* system the call began with.                                             *)

\* text contains sub as a contiguous piece
Contains(text, sub) ==
    \E i \in 1..(Len(text) - Len(sub) + 1) : SubSeq(text, i, i + Len(sub) - 1) = sub

BeginsWithError(text) == text # <<>> /\ text[1] = "Error:"

\* the paths a caller supplied, in the order given
GivenList(v) == IF v.kind = "list" THEN v.l ELSE IF v.kind = "str" THEN <<v.s>> ELSE <<>>

\* nothing was supplied: None, "" or []
NothingGiven(v) == GivenList(v) = <<>> \/ (v.kind = "str" /\ v.s = <<>>)

\* the path existed when the call began
ExistedBefore(f) == PathExists(pre.files, pre.dirs, f)

\* the missing paths among the given ones, in the order given
MissingGiven == SelectSeq(GivenList(core.input_files), LAMBDA f : ~ExistedBefore(f))

\* the input list is empty or names a path that does not exist
InputRejected == NothingGiven(core.input_files) \/ MissingGiven # <<>>

\* the output directory existed or could be created when the call began
DirectoryCreatable == core.output_dir # <<>> /\ NormPath(core.output_dir) \notin DOMAIN pre.files

\* the files the glob pattern of a stitch_microscopy_tiles_ashlar call matched
Matched == GlobSet(pre.files, PathJoin(args.tile_directory, args.file_pattern))

\* the call was rejected by validation
Rejected ==
    \/ op \in {"stitch_and_register_tiles_ashlar", "align_cyclic_images_ashlar"} /\ InputRejected
    \/ op = "stitch_microscopy_tiles_ashlar" /\ Matched = {}

\* C1: every call whose input validation rejects (an empty input list or a missing
\* input path for stitch_and_register_tiles_ashlar and align_cyclic_images_ashlar, a
\* glob matching nothing for stitch_microscopy_tiles_ashlar) returns a text that
\* begins with "Error:", and no external process is spawned during the call.
C1_RejectedInputReturnsError ==
    Rejected => /\ outcome = "returned"
                /\ BeginsWithError(report)
                /\ spawned = <<>>

\* C1, for the calls whose output directory existed or could be created.
C1_WhenDirectoryCreatable ==
    (Rejected /\ (delegated => DirectoryCreatable))
        => outcome = "returned" /\ BeginsWithError(report) /\ spawned = <<>>

\* C2: for a non-empty input list with at least one missing path,
\* stitch_and_register_tiles_ashlar returns a report naming exactly the missing
\* paths, in the order of the input list, and spawns no process.
C2_ReportNamesExactlyMissing ==
    (delegated /\ ~NothingGiven(core.input_files) /\ MissingGiven # <<>>)
        => /\ outcome = "returned"
           /\ report = <<"Error:", " Input files not found: ">> \o ListRepr(MissingGiven)
           /\ spawned = <<>>

\* C2, for the calls whose output directory existed or could be created.
C2_WhenDirectoryCreatable ==
    (delegated /\ ~NothingGiven(core.input_files) /\ MissingGiven # <<>> /\ DirectoryCreatable)
        => /\ outcome = "returned"
           /\ report = <<"Error:", " Input files not found: ">> \o ListRepr(MissingGiven)
           /\ spawned = <<>>

\* C3: no fault of stitch_and_register_tiles_ashlar reaches the caller (a failure to
\* create the output directory and a failure to launch the process included): every
\* call returns a text report.
C3_EveryCallReturnsReport ==
    delegated => outcome = "returned" /\ report # <<>>

\* the part of C3 that holds: a failure to launch the process is rendered into the report
C3_LaunchFailureReported ==
    (delegated /\ spawned # <<>> /\ ~proc.launch)
        => outcome = "returned" /\ Contains(report, <<" Error:", " ">> \o proc.error)

\* the files a caller supplied for --ffp / --dfp: none for None, "" and []
ProfilesGiven(v) == IF NothingGiven(v) THEN <<>> ELSE GivenList(v)

\* the command line C4 describes for the arguments in `core`
ExpectedCommand ==
    <<Lit("ashlar")>>
    \o GivenList(core.input_files)
    \o <<Lit("-o"), PathJoin(core.output_dir, core.output_path)>>
    \o <<Lit("-c"), IntStr(core.align_channel)>>
    \o <<Lit("-m"), IntStr(core.maximum_shift)>>
    \o (IF core.filter_sigma.kind = "num"
        THEN <<Lit("--filter-sigma"), IntStr(core.filter_sigma.n)>> ELSE <<>>)
    \o <<Lit("--tile-size"), IntStr(core.tile_size)>>
    \o (IF ProfilesGiven(core.ffp_files) # <<>>
        THEN <<Lit("--ffp")>> \o ProfilesGiven(core.ffp_files) ELSE <<>>)
    \o (IF ProfilesGiven(core.dfp_files) # <<>>
        THEN <<Lit("--dfp")>> \o ProfilesGiven(core.dfp_files) ELSE <<>>)
    \o (IF core.flip_x THEN <<Lit("--flip-x")>> ELSE <<>>)
    \o (IF core.flip_y THEN <<Lit("--flip-y")>> ELSE <<>>)

HasToken(c, t) == \E i \in 1..Len(c) : c[i] = t

\* C4: for every valid input set the command line stitch_and_register_tiles_ashlar
\* builds is "ashlar", the inputs in the order given, "-o" and the joined output path,
\* "-c" channel, "-m" shift, the optional "--filter-sigma", "--tile-size", the
\* optional "--ffp" and "--dfp" with their files, then "--flip-x" and "--flip-y",
\* each flip flag present if and only if it was set; that line is what is run.
C4_CommandLineOrder ==
    /\ (delegated /\ ~InputRejected /\ DirectoryCreatable) => cmd # <<>>
    /\ (delegated /\ cmd # <<>>)
         => /\ cmd = ExpectedCommand
            /\ spawned = <<cmd>>
            /\ HasToken(cmd, Lit("--flip-x")) <=> core.flip_x
            /\ HasToken(cmd, Lit("--flip-y")) <=> core.flip_y

C4_Witness ==
    /\ op = "stitch_and_register_tiles_ashlar"
    /\ spawned # <<>>
    /\ core.flip_y
    /\ core.ffp_files.kind = "list"
    /\ Len(core.ffp_files.l) = 2

\* a second witness of C4: two different inputs and a flag
C4_InputOrderWitness ==
    /\ op = "stitch_and_register_tiles_ashlar"
    /\ spawned # <<>>
    /\ core.input_files = ListVal(<<FileB, FileA>>)
    /\ core.filter_sigma.kind = "num"

\* the file at the resolved output path after the call
OutputExists == PathExists(files, dirs, PathJoin(core.output_dir, core.output_path))

\* C5: when the external process exits with a nonzero status, the report holds that
\* exit code and the captured standard error, and neither a "Results" section nor
\* the "Conclusion", whether or not a file exists at the output path.
C5_NonzeroExitReport ==
    (delegated /\ spawned # <<>> /\ proc.launch /\ proc.rc # 0)
        => /\ outcome = "returned"
           /\ Contains(report, <<" ASHLAR failed with exit code ">> \o IntStr(proc.rc) \o <<"\n">>)
           /\ Contains(report, <<"Error message:", "\n">> \o proc.stderr)
           /\ SubSeq(report, Len(report) - Len(proc.stderr) + 1, Len(report)) = proc.stderr
           /\ ~Contains(report, <<"## Results">>)
           /\ ~Contains(report, <<"## Conclusion">>)
           /\ ~Contains(report, <<"Image stitching and registration completed successfully.">>)

C5_Witness ==
    /\ delegated /\ spawned # <<>> /\ proc.launch /\ proc.rc # 0
    /\ proc.stderr # <<>>
    /\ OutputExists

\* the two-decimal texts within half a hundredth of bytes / 1024^2
NearestHundredths(bytes) ==
    { Hundredths(h) : h \in { (200 * bytes + MiB) \div (2 * MiB),
                              (200 * bytes + MiB - 1) \div (2 * MiB) } }

\* C6: when the process exits with status 0 the report includes the captured
\* standard output, and has a "Results" section, with the resolved output path and
\* the size in MiB to two decimals, if and only if a file exists at the resolved
\* output path after the run.
C6_SuccessReport ==
    (delegated /\ spawned # <<>> /\ proc.launch /\ proc.rc = 0)
        => /\ outcome = "returned"
           /\ Contains(report, proc.stdout)
           /\ Contains(report, <<"\n", "## Results", "\n">>) <=> OutputExists
           /\ OutputExists =>
                \E t \in NearestHundredths(files[NormPath(PathJoin(core.output_dir, core.output_path))]) :
                    Contains(report,
                        <<"\n", "## Results", "\n", "- Output file: ">>
                        \o PathJoin(core.output_dir, core.output_path)
                        \o <<"\n", "- File size: ">> \o t \o <<" MB", "\n">>)

C6_Witness ==
    /\ delegated /\ spawned # <<>> /\ proc.launch /\ proc.rc = 0
    /\ proc.stdout # <<>>
    /\ OutputExists
    /\ files[NormPath(PathJoin(core.output_dir, core.output_path))] = 1578107
    /\ core.output_dir = <<"out">>

\* C7: stitch_microscopy_tiles_ashlar with a pattern matching no file returns an
\* "Error:" report naming the pattern and the directory without calling
\* stitch_and_register_tiles_ashlar (no directory is created, no process spawned);
\* with matches it delegates with the matches in lexicographic order.
C7_TilesWrapper ==
    op = "stitch_microscopy_tiles_ashlar" =>
        IF Matched = {}
        THEN /\ ~delegated
             /\ outcome = "returned"
             /\ BeginsWithError(report)
             /\ Contains(report, <<"'">> \o args.file_pattern \o <<"'">>)
             /\ Contains(report, <<" found in ">> \o args.tile_directory)
             /\ spawned = <<>>
             /\ dirs = pre.dirs
             /\ files = pre.files
        ELSE /\ delegated
             /\ core.input_files.kind = "list"
             /\ Len(core.input_files.l) = Cardinality(Matched)
             /\ { core.input_files.l[i] : i \in 1..Len(core.input_files.l) } = Matched
             /\ \A i, j \in 1..Len(core.input_files.l) :
                    i < j => StrLess(core.input_files.l[i], core.input_files.l[j])

C7_Witness ==
    /\ op = "stitch_microscopy_tiles_ashlar"
    /\ Matched = {}
    /\ args.output_dir = <<"out">>
    /\ args.tile_directory = <<"tiles">>

\* a second witness of C7: three matches, delegated in sorted order
C7_SortedWitness ==
    /\ op = "stitch_microscopy_tiles_ashlar"
    /\ delegated
    /\ Cardinality(Matched) = 3
    /\ spawned # <<>>

\* C8: every call to stitch_and_register_tiles_ashlar spawns exactly one external
\* process, on every path (validation outcome, exit 0, nonzero exit, launch failure).
C8_ExactlyOneProcess ==
    delegated => Len(spawned) = 1

\* C8 as amended: a call runs the external program at most once, and exactly once if
\* and only if the output directory could be created and the input was accepted.
C8_AtMostOneInvocation ==
    delegated => /\ Len(spawned) <= 1
                 /\ Len(spawned) = 1 <=> (DirectoryCreatable /\ ~InputRejected)
                 /\ spawned # <<>> => spawned[1] = cmd

C8_Witness ==
    /\ delegated
    /\ Len(spawned) = 1
    /\ ~proc.launch

\* the call of the last state repeated with ffp_files / dfp_files replaced
WithFfp(v) == StitchAndRegister([core EXCEPT !.ffp_files = v], pre.files, pre.dirs, clock, proc)
WithDfp(v) == StitchAndRegister([core EXCEPT !.dfp_files = v], pre.files, pre.dirs, clock, proc)

SameCommandAndReport(r) == r.outcome = outcome /\ r.cmd = cmd /\ r.report = report

\* C9: a call with ffp_files (dfp_files) a single string s gives the same command
\* line and the same report as the call with the one-element list [s].
C9_StringIsOneElementList ==
    delegated =>
        /\ core.ffp_files.kind = "str" => SameCommandAndReport(WithFfp(ListVal(<<core.ffp_files.s>>)))
        /\ core.dfp_files.kind = "str" => SameCommandAndReport(WithDfp(ListVal(<<core.dfp_files.s>>)))

\* C9 as amended: the same for every non-empty string s; and a list that is passed
\* again as the list it was normalised to gives the same command line and report.
C9_NonEmptyStringIsOneElementList ==
    delegated =>
        /\ (core.ffp_files.kind = "str" /\ core.ffp_files.s # <<>>)
              => SameCommandAndReport(WithFfp(ListVal(<<core.ffp_files.s>>)))
        /\ (core.dfp_files.kind = "str" /\ core.dfp_files.s # <<>>)
              => SameCommandAndReport(WithDfp(ListVal(<<core.dfp_files.s>>)))
        /\ core.ffp_files.kind = "list"
              => SameCommandAndReport(WithFfp(ListVal(GivenList(core.ffp_files))))
        /\ core.dfp_files.kind = "list"
              => SameCommandAndReport(WithDfp(ListVal(GivenList(core.dfp_files))))

C9_Witness ==
    /\ delegated
    /\ spawned # <<>>
    /\ core.dfp_files.kind = "str"
    /\ core.dfp_files.s # <<>>
    /\ HasToken(cmd, Lit("--dfp"))

\* C10: the report lists the Gaussian filter sigma if and only if the command line
\* holds "--filter-sigma", for every filter_sigma, zero included.
C10_ReportAndCommandAgreeOnSigma ==
    (delegated /\ cmd # <<>>)
        => (Contains(report, <<"- Gaussian filter sigma: ">>) <=> HasToken(cmd, Lit("--filter-sigma")))

\* what holds instead: they agree for None and for every nonzero sigma
C10_AgreeUnlessZero ==
    (delegated /\ cmd # <<>> /\ ~(core.filter_sigma.kind = "num" /\ core.filter_sigma.n = 0))
        => (Contains(report, <<"- Gaussian filter sigma: ">>) <=> HasToken(cmd, Lit("--filter-sigma")))

====
